---- MODULE Spec2Model ----
(***************************************************************************)
(* A model of mapty's script.js: the Workout / Running / Cycling records,  *)
(* the App controller (its private fields #mapEvent and #workouts), the    *)
(* localStorage blob kept under the key 'workouts', and the parts of the   *)
(* page the handlers read and write (the form, its input fields, the list  *)
(* of rendered entries, the markers put on the map).                       *)
(*                                                                         *)
(* Every handler of the script is one action.  The form surface is the     *)
(* page's: a submit event carries the current value of the type selector   *)
(* and of the four fields, strings the script converts with unary plus.    *)
(* JavaScript numbers are modelled as records [k, v]: k = "fin" with the   *)
(* integer v, k = "nan", or k = "inf" (positive infinity).                 *)
(***************************************************************************)
EXTENDS Integers, Sequences, FiniteSets, TLC

\* ------------------------------------------------------------------ bounds
\* The session store never grows beyond MaxWorkouts records.
MaxWorkouts == 2
\* The clock (new Date(), in abstract instants) reads 0 to MaxTime.
MaxTime == 1
\* Instants sharing a calendar month: the day of the month advances with every
\* instant and the month with every DaysPerMonth instants.
DaysPerMonth == 2

\* --------------------------------------------------------------- constants
\* #mapZoomLevel
mapZoomLevel == 17

\* const coords = [36.27, 49.99435], in units of 1e-5 degree
DefaultCoords == <<3627000, 4999435>>

\* Places a user clicks on the map, <<lat, lng>> in units of 1e-5 degree.
Locations == {<<3627000, 4999000>>, <<5150000, -12000>>}

\* The values of the type selector.
WorkoutTypes == {"running", "cycling"}

\* What a user types into each field.  "" is an empty field (the elevation
\* is left empty in EmptyFill and in MetricFills).
DistanceInputs == {"", "5", "Infinity"}
DurationInputs == {"", "25", "-1"}
CadenceInputs == {"", "180", "abc"}
ElevationInputs == {"-3", "Infinity"}

\* The four fields as a user leaves them before submitting: the cleared form,
\* and a typical fill with at most one field changed to any of its inputs.
Fields == [d : DistanceInputs, u : DurationInputs, c : CadenceInputs, e : ElevationInputs]
EmptyFill == [d |-> "", u |-> "", c |-> "", e |-> ""]
TypicalFill == [d |-> "5", u |-> "25", c |-> "180", e |-> "-3"]
FormFills ==
  {EmptyFill} \cup
  {f \in Fields : Cardinality({k \in DOMAIN f : f[k] # TypicalFill[k]}) <= 1}

\* Distances and durations whose quotients need rounding: thirds and
\* sevenths (down and up) and quarters (exactly between two tenths).
MetricDistanceInputs == {"1", "3", "4"}
MetricDurationInputs == {"1", "2", "7"}
MetricFills ==
  [d : MetricDistanceInputs, u : MetricDurationInputs, c : {"180"}, e : {""}]
MetricLocations == {<<3627000, 4999000>>}

months == <<"January", "February", "March", "April", "May", "June", "July",
            "August", "September", "October", "November", "December">>

VARIABLES
  blob,               \* localStorage: the value under the key 'workouts'
  workouts,           \* App.#workouts
  mapEvent,           \* App.#mapEvent: <<>> while undefined, else <<latlng>>
  list,               \* the li.workout elements after the form, top to bottom
  markers,            \* the markers added to the map, in the order added
  formHidden,         \* form.classList contains 'hidden'
  formDisplay,        \* form.style.display ("" while the style sheet decides)
  now,                \* what the clock read when new Date() last ran
  app,                \* const app holds an App: the constructor returned
  reloading,          \* location.reload() was called and the page is not yet replaced
  out                 \* what the most recent event did to the outside

dom == <<list, markers>>
form == <<formHidden, formDisplay>>
vars == <<blob, workouts, mapEvent, list, markers, formHidden, formDisplay, now, app, reloading, out>>

\* ------------------------------------------------------- JavaScript values
Fin(n) == [k |-> "fin", v |-> n]
NaN == [k |-> "nan", v |-> 0]
Infinity == [k |-> "inf", v |-> 0]

\* Unary plus on a string: +inputDistance.value, +workoutEl.dataset.id
ToNumber(s) ==
  CASE s = "" -> Fin(0)
    [] s = "0" -> Fin(0)
    [] s = "1" -> Fin(1)
    [] s = "2" -> Fin(2)
    [] s = "3" -> Fin(3)
    [] s = "4" -> Fin(4)
    [] s = "7" -> Fin(7)
    [] s = "5" -> Fin(5)
    [] s = "25" -> Fin(25)
    [] s = "180" -> Fin(180)
    [] s = "-1" -> Fin(-1)
    [] s = "-3" -> Fin(-3)
    [] s = "Infinity" -> Infinity
    [] OTHER -> NaN

\* Number.isFinite(input)
isFinite(x) == x.k = "fin"

\* input > 0
GreaterThanZero(x) == (x.k = "fin" /\ x.v > 0) \/ x.k = "inf"

\* const validInputs = (...inputs) => inputs.every(input => Number.isFinite(input))
validInputs(xs) == \A i \in DOMAIN xs : isFinite(xs[i])

\* const allPositive = (...inputs) => inputs.every(input => input > 0)
allPositive(xs) == \A i \in DOMAIN xs : GreaterThanZero(xs[i])

\* (num / den).toFixed(1) for positive num, den: the decimal string
\* "<int>.<frac>", nearest tenth, the larger on a tie.  toFixed rounds the
\* double the division gave; for the quotients taken here a tie happens at
\* quarters only, which a double holds exactly.
toFixed1(num, den) ==
  LET q == (20 * num + den) \div (2 * den)
  IN  [int |-> q \div 10, frac |-> q % 10]

\* new Date() at instant t, and the string date.toJSON() makes of it
DateObject(t) == [cls |-> "Date", t |-> t]
ISOString(t) == [cls |-> "String", t |-> t]

\* date.getMonth(), date.getDate()
getMonth(t) == (t \div DaysPerMonth) % Len(months)
getDate(t) == (t % DaysPerMonth) + 1

\* type[0].toUpperCase() + type.slice(1)
Capitalize(type) == IF type = "running" THEN "Running" ELSE "Cycling"

\* Workout._setDescription
setDescription(type, t) ==
  [kind |-> Capitalize(type), on |-> "on", month |-> months[getMonth(t) + 1],
   day |-> getDate(t)]

\* A calcPace that cuts the quotient off after the first decimal.
calcPace_truncates(distance, duration) ==
  LET q == (10 * duration) \div distance
  IN  [int |-> q \div 10, frac |-> q % 10]

\* Running.calcPace: (duration / distance).toFixed(1)
\* Cycling.calcSpeed: (distance / (duration / 60)).toFixed(1), the quotient
\* taken as 60 * distance / duration
calcPace(distance, duration) == toFixed1(duration, distance)
calcSpeed(distance, duration) == toFixed1(60 * distance, duration)

\* new Running(coords, distance, duration, cadence) at instant t
Running(coords, distance, duration, cadence, t) ==
  [date |-> DateObject(t), id |-> t, coords |-> coords, distance |-> distance,
   duration |-> duration, type |-> "running", cadence |-> cadence,
   pace |-> calcPace(distance, duration),
   description |-> setDescription("running", t)]

\* A Cycling that also sets a cadence.
Cycling_withCadence(coords, distance, duration, elevation, t) ==
  [date |-> DateObject(t), id |-> t, coords |-> coords, distance |-> distance,
   duration |-> duration, type |-> "cycling", elevation |-> elevation,
   cadence |-> 0, speed |-> calcSpeed(distance, duration),
   description |-> setDescription("cycling", t)]

\* new Cycling(coords, distance, duration, elevation) at instant t
Cycling(coords, distance, duration, elevation, t) ==
  [date |-> DateObject(t), id |-> t, coords |-> coords, distance |-> distance,
   duration |-> duration, type |-> "cycling", elevation |-> elevation,
   speed |-> calcSpeed(distance, duration),
   description |-> setDescription("cycling", t)]

\* -------------------------------------------------------------- persistence
\* localStorage.getItem('workouts') is null when the key is absent
Absent == [t |-> "absent"]

\* JSON.stringify of one record: a Date becomes its ISO string, numbers and
\* strings stay.
toJSON(w) ==
  IF "date" \in DOMAIN w /\ w.date.cls = "Date"
  THEN [w EXCEPT !.date = ISOString(w.date.t)]
  ELSE w

\* JSON.stringify(this.#workouts): the text of an array, kept as its structure
JSONstringify(ws) == [t |-> "array", a |-> [i \in DOMAIN ws |-> toJSON(ws[i])]]

\* App._setLocalStorage, given the store to write
setLocalStorage(ws) == JSONstringify(ws)

\* JSON.parse(localStorage.getItem('workouts')): getItem gives null for an
\* absent key, and JSON.parse(null) is null; the text of an array parses to
\* the array, the text {} to an object, the text null to null; a text that
\* is not JSON makes JSON.parse throw a SyntaxError.
Null == [t |-> "null"]
SyntaxError == [t |-> "SyntaxError"]
JSONparse(b) ==
  CASE b.t = "absent" -> Null
    [] b.t = "garbage" -> SyntaxError
    [] OTHER -> b

\* ---------------------------------------------------------------- rendering
\* `${workout.id}` in the data-id attribute, and +workoutEl.dataset.id
dataIdOf(w) ==
  IF "id" \in DOMAIN w THEN [s |-> "digits", n |-> w.id]
  ELSE [s |-> "undefined", n |-> 0]
NumberOfDataId(a) == IF a.s = "digits" THEN Fin(a.n) ELSE NaN

\* App._renderWorkout: the li element
Entry(w) ==
  LET isCycling == w.type = "cycling"
  IN  [dataId |-> dataIdOf(w), type |-> w.type, title |-> w.description,
       distance |-> w.distance, duration |-> w.duration,
       metric |-> IF isCycling THEN w.speed ELSE w.pace,
       extra |-> IF isCycling THEN w.elevation ELSE w.cadence]

\* A _renderWorkout that puts the new element in the place of the others.
renderWorkout_replaces(l, w) == <<Entry(w)>>

\* form.insertAdjacentHTML('afterend', html): the new element comes first
renderWorkout(l, w) == <<Entry(w)>> \o l

\* App._renderWorkoutMarker
Marker(w) == [coords |-> w.coords, popup |-> [type |-> w.type, text |-> w.description]]
renderWorkoutMarker(m, w) == Append(m, Marker(w))

\* this.#workouts.forEach(work => { _renderWorkout; _renderWorkoutMarker })
RECURSIVE renderEach(_, _, _)
renderEach(ws, i, d) ==
  IF i > Len(ws) THEN d
  ELSE renderEach(ws, i + 1, [list |-> renderWorkout(d.list, ws[i]),
                               markers |-> renderWorkoutMarker(d.markers, ws[i])])

\* A _getLocalStorage that writes each record's description anew from the
\* date of the page load.
getLocalStorage_redescribes(b) ==
  LET data == JSONparse(b)
  IN  IF data = Null
      THEN [workouts |-> <<>>, list |-> <<>>, markers |-> <<>>, error |-> FALSE]
      ELSE LET ws == [i \in DOMAIN data.a |->
                        [data.a[i] EXCEPT
                           !.description = setDescription(data.a[i].type, now)]]
               d == renderEach(ws, 1, [list |-> <<>>, markers |-> <<>>])
           IN  [workouts |-> ws, list |-> d.list, markers |-> d.markers,
                error |-> FALSE]

\* App._getLocalStorage: the store and the page after it ran on blob b, and
\* whether it threw.  A SyntaxError leaves JSON.parse before anything is
\* assigned; if (!data) return leaves the store empty and renders nothing; an
\* object that is no array is assigned to #workouts and then data.forEach is
\* not a function, a TypeError.
getLocalStorage(b) ==
  LET data == JSONparse(b)
      nothing == [workouts |-> <<>>, list |-> <<>>, markers |-> <<>>, error |-> FALSE]
  IN  CASE data = SyntaxError -> [nothing EXCEPT !.error = TRUE]
        [] data = Null -> nothing
        [] data.t = "object" -> [nothing EXCEPT !.workouts = data, !.error = TRUE]
        [] OTHER ->
             LET d == renderEach(data.a, 1, [list |-> <<>>, markers |-> <<>>])
             IN  [workouts |-> data.a, list |-> d.list, markers |-> d.markers,
                  error |-> FALSE]

\* -------------------------------------------------------------- the outside
\* out: the event handled last, whether it alerted, whether it threw, the
\* setView call it made on the map (<<>> for none), and what it did to the
\* form's fields: "cleared" when it set the four inputs to '', "toggled" when
\* it toggled form__row--hidden on the cadence and the elevation row, "" else.
Out(op, alert, error, call, fields) ==
  [op |-> op, alert |-> alert, error |-> error, setView |-> call, fields |-> fields]
setView(coords) == <<[center |-> coords, zoom |-> mapZoomLevel]>>
Quiet(op) == Out(op, FALSE, FALSE, <<>>, "")

\* A _loadMap that creates no map view.
loadMap_noView(op) == Out(op, FALSE, FALSE, <<>>, "")

\* App._loadMap: L.map('map').setView(coords, this.#mapZoomLevel), with the
\* fixed coords whatever position it is given.  The constructor calls it
\* directly; _getPosition, the only place that asks for the location, is
\* called from nowhere, so no location request is made.
loadMap(op) == Out(op, FALSE, FALSE, setView(DefaultCoords), "")

\* new App() on a freshly loaded page whose storage holds b: _loadMap,
\* _setMarkerIcon, _getLocalStorage, then the three listeners.  The page
\* starts with the form hidden.  When _getLocalStorage throws, the error
\* leaves the constructor: the map is set up and listens to clicks, the
\* three listeners are never added and const app is never initialised.
Constructed(b, op) ==
  LET s == getLocalStorage(b)
  IN  /\ workouts' = s.workouts
      /\ list' = s.list
      /\ markers' = s.markers
      /\ mapEvent' = <<>>
      /\ formHidden' = TRUE
      /\ formDisplay' = ""
      /\ app' = ~s.error
      /\ reloading' = FALSE
      /\ out' = [loadMap(op) EXCEPT !.error = s.error]

InitOn(b) ==
  LET s == getLocalStorage(b)
  IN  /\ blob = b
      /\ workouts = s.workouts
      /\ list = s.list
      /\ markers = s.markers
      /\ mapEvent = <<>>
      /\ formHidden = TRUE
      /\ formDisplay = ""
      /\ now = 0
      /\ app = ~s.error
      /\ reloading = FALSE
      /\ out = [loadMap("start") EXCEPT !.error = s.error]

\* The first visit: nothing is stored yet.
Init == InitOn(Absent)

\* A visit that finds a blob some other program stored: an array holding one
\* running record that has no id.
ForeignRecord ==
  [date |-> ISOString(0), coords |-> DefaultCoords, distance |-> 5, duration |-> 25,
   type |-> "running", cadence |-> 180, pace |-> toFixed1(25, 5),
   description |-> setDescription("running", 0)]
ForeignBlobs == {[t |-> "array", a |-> <<ForeignRecord>>]}
InitForeign == \E b \in ForeignBlobs : InitOn(b)

\* A visit that finds under the key something that is no array of records: a
\* text that is not JSON, the JSON text of an object, the JSON text null.
MalformedBlobs == {[t |-> "garbage"], [t |-> "object"], Null}
InitMalformed == \E b \in {Absent} \cup MalformedBlobs : InitOn(b)

\* ------------------------------------------------------------------ actions
\* A constructor that saves the store again after loading it.
PageLoad_resaves ==
  /\ Constructed(blob, "start")
  /\ blob' = setLocalStorage(workouts')
  /\ UNCHANGED now

\* The page is loaded again, by the user or by the reload that reset asked
\* for: the script runs new App() on what is stored then.
PageLoad ==
  /\ Constructed(blob, "start")
  /\ UNCHANGED <<blob, now>>

\* A _showForm that keeps the place of the first click while there is one.
showForm_keepsFirst(loc) ==
  /\ mapEvent' = IF mapEvent = <<>> THEN <<loc>> ELSE mapEvent
  /\ formHidden' = FALSE
  /\ out' = Quiet("mapClick")
  /\ UNCHANGED <<blob, workouts, dom, formDisplay, now, app, reloading>>

\* App._showForm: a click on the map at loc
showForm(loc) ==
  /\ mapEvent' = <<loc>>
  /\ formHidden' = FALSE
  /\ out' = Quiet("mapClick")
  /\ UNCHANGED <<blob, workouts, dom, formDisplay, now, app, reloading>>

\* App._toggleElevationForm: the type selector changed (the listener is
\* there once the constructor has added it)
toggleElevationForm ==
  /\ app
  /\ out' = Out("typeChange", FALSE, FALSE, <<>>, "toggled")
  /\ UNCHANGED <<blob, workouts, mapEvent, dom, form, now, app, reloading>>

\* A rejection that also drops the newest record of the store.
Rejected_drops ==
  /\ out' = Out("submit", TRUE, FALSE, <<>>, "")
  /\ workouts' = SubSeq(workouts, 1, Len(workouts) - 1)
  /\ UNCHANGED <<blob, mapEvent, dom, form, now, app, reloading>>

\* return alert('inputs have to be posetive numbers')
Rejected ==
  /\ out' = Out("submit", TRUE, FALSE, <<>>, "")
  /\ UNCHANGED <<blob, workouts, mapEvent, dom, form, now, app, reloading>>

\* const { lat, lng } = this.#mapEvent.latlng while #mapEvent is undefined:
\* a TypeError leaves the handler
SubmitThrows ==
  /\ out' = Out("submit", FALSE, TRUE, <<>>, "")
  /\ UNCHANGED <<blob, workouts, mapEvent, dom, form, now, app, reloading>>

\* A _hideForm that clears the fields and forgets to add the class 'hidden'.
hideForm_keepsClass ==
  /\ formDisplay' = "none"
  /\ formHidden' = formHidden
  /\ out' = Out("submit", FALSE, FALSE, <<>>, "cleared")

\* App._hideForm: display none, the class 'hidden', a timer that will set
\* display back to grid (hideFormTimeout), and the four fields set to ''
hideForm ==
  /\ formDisplay' = "none"
  /\ formHidden' = TRUE
  /\ out' = Out("submit", FALSE, FALSE, <<>>, "cleared")

\* A tail that assigns the new record to the store instead of pushing it.
Accepted_assigns(workout) ==
  /\ Len(workouts) < MaxWorkouts
  /\ workouts' = <<workout>>
  /\ blob' = setLocalStorage(workouts')
  /\ markers' = renderWorkoutMarker(markers, workout)
  /\ list' = renderWorkout(list, workout)
  /\ hideForm
  /\ now' = workout.date.t
  /\ UNCHANGED <<mapEvent, app, reloading>>

\* The tail of App._newWorkout: push, save, marker, list entry, hide the form
\* (the first conjunct keeps the store within MaxWorkouts)
Accepted(workout) ==
  /\ Len(workouts) < MaxWorkouts
  /\ workouts' = Append(workouts, workout)
  /\ blob' = setLocalStorage(workouts')
  /\ markers' = renderWorkoutMarker(markers, workout)
  /\ list' = renderWorkout(list, workout)
  /\ hideForm
  /\ now' = workout.date.t
  /\ UNCHANGED <<mapEvent, app, reloading>>

\* The clock never runs backwards: what new Date() can read next.
Clock == {t \in now..(now + 1) : t <= MaxTime}

\* App._newWorkout: the form is submitted with the selector at type and the
\* fields holding the strings d, u, c, e; new Date() reads the clock when a
\* record is constructed.  The selector offers running and cycling only, so
\* one of the two branches is taken.  The listener is there once the
\* constructor has added it.
newWorkout(type, d, u, c, e) ==
  /\ app
  /\ IF mapEvent = <<>> THEN SubmitThrows
     ELSE
       LET coords == mapEvent[1]
           distance == ToNumber(d)
           duration == ToNumber(u)
           cadence == ToNumber(c)
           elevation == ToNumber(e)
       IN  IF type = "running"
           THEN IF \/ ~validInputs(<<distance, duration, cadence>>)
                   \/ ~allPositive(<<distance, duration, cadence>>)
                THEN Rejected
                ELSE \E t \in Clock :
                       Accepted(Running(coords, distance.v, duration.v, cadence.v, t))
           ELSE IF \/ ~validInputs(<<distance, duration, elevation>>)
                   \/ ~allPositive(<<distance, duration>>)
                THEN Rejected
                ELSE \E t \in Clock :
                       Accepted(Cycling(coords, distance.v, duration.v, elevation.v, t))

\* A find that ignores the id and hands back the first record of the store.
find_first(ws, id) == IF ws = <<>> THEN 0 ELSE 1

\* this.#workouts.find(work => work.id === id): the first index, 0 for none
find(ws, id) ==
  LET hits == {i \in DOMAIN ws : "id" \in DOMAIN ws[i] /\ isFinite(id) /\ ws[i].id = id.v}
  IN  IF hits = {} THEN 0 ELSE CHOOSE i \in hits : \A j \in hits : i <= j

\* App._moveToPopup: a click in the list, on entry number target (0: on no
\* entry).  workoutObj.coords throws a TypeError when find returned undefined.
moveToPopup(target) ==
  /\ app
  /\ IF target = 0 THEN out' = Quiet("listClick")
     ELSE LET id == NumberOfDataId(list[target].dataId)
              i == find(workouts, id)
          IN  IF i = 0
              THEN out' = Out("listClick", FALSE, TRUE, <<>>, "")
              ELSE out' = Out("listClick", FALSE, FALSE, setView(workouts[i].coords), "")
  /\ UNCHANGED <<blob, workouts, mapEvent, dom, form, now, app, reloading>>

\* App.reset, called on const app: removeItem, and location.reload() asks
\* for the page to be loaded again, which happens later (PageLoad).  Until
\* then the page stays as it is, store and listeners included, and handles
\* the events that come.
reset ==
  /\ app
  /\ blob' = Absent
  /\ reloading' = TRUE
  /\ out' = Quiet("reset")
  /\ UNCHANGED <<workouts, mapEvent, dom, form, now, app>>

\* setTimeout(() => (form.style.display = 'grid'), 100): a callback runs.
\* While display is none the callback of the last _hideForm is still to come;
\* a callback that finds display at grid changes nothing.
hideFormTimeout ==
  /\ formDisplay = "none"
  /\ formDisplay' = "grid"
  /\ out' = Quiet("timeout")
  /\ UNCHANGED <<blob, workouts, mapEvent, dom, formHidden, now, app, reloading>>

Next ==
  \/ PageLoad
  \/ \E loc \in Locations : showForm(loc)
  \/ toggleElevationForm
  \/ \E type \in WorkoutTypes, f \in FormFills : newWorkout(type, f.d, f.u, f.c, f.e)
  \/ \E target \in 0..Len(list) : moveToPopup(target)
  \/ reset
  \/ hideFormTimeout

Spec == Init /\ [][Next]_vars

\* The same program started on a blob it did not write itself.
SpecForeign == InitForeign /\ [][Next]_vars

\* The metrics on their own, in one run of the page: clicks on one place of
\* the map and submissions of valid forms whose distance and duration are
\* drawn from MetricFills.
NextMetric ==
  \/ \E loc \in MetricLocations : showForm(loc)
  \/ \E type \in WorkoutTypes, f \in MetricFills : newWorkout(type, f.d, f.u, f.c, f.e)
  \/ hideFormTimeout

SpecMetric == Init /\ [][NextMetric]_vars

\* The same program started on any of the first visit and the malformed blobs.
SpecMalformed == InitMalformed /\ [][Next]_vars

\* ------------------------------------------------------------------- claims
\* What the specification calls a valid form: distance, duration and the
\* extra of the chosen kind are finite, distance and duration are above zero,
\* and so is the cadence of a running workout.
Acceptable(type, f) ==
  LET distance == ToNumber(f.d)
      duration == ToNumber(f.u)
      extra == IF type = "running" THEN ToNumber(f.c) ELSE ToNumber(f.e)
  IN  /\ distance.k = "fin" /\ distance.v > 0
      /\ duration.k = "fin" /\ duration.v > 0
      /\ extra.k = "fin"
      /\ type = "running" => extra.v > 0

\* The step is the submission of the form holding f with the selector at type.
Submits(type, f) == newWorkout(type, f.d, f.u, f.c, f.e)

\* load() of the specification: the parsed blob, empty for an absent key
Load(b) == IF JSONparse(b) = Null THEN <<>> ELSE JSONparse(b).a

\* C1: a submission whose fields violate validation is rejected with an alert
\* and changes neither the store, nor the blob, nor the markers, nor the list.
C1_InvalidSubmissionAlerts ==
  [][\A type \in WorkoutTypes, f \in FormFills :
       (Submits(type, f) /\ ~Acceptable(type, f)) =>
         /\ out'.alert
         /\ workouts' = workouts
         /\ blob' = blob
         /\ markers' = markers
         /\ list' = list]_vars

\* C2: a submission creates a record if and only if its fields are valid
\* (any finite elevation, negative included, is valid for cycling).
C2_AcceptedIffValid ==
  [][\A type \in WorkoutTypes, f \in FormFills :
       Submits(type, f) =>
         ((Len(workouts') = Len(workouts) + 1) <=> Acceptable(type, f))]_vars

\* The last event was a submission that neither alerted nor threw.
Succeeded(o) == o.op = "submit" /\ ~o.alert /\ ~o.error

\* C3: a successful submission leaves the store equal to what it was followed
\* by exactly one record, which has the chosen kind and the submitted distance,
\* duration and extra value.
C3_SuccessAppendsOne ==
  [][Succeeded(out') =>
       /\ Len(workouts') = Len(workouts) + 1
       /\ SubSeq(workouts', 1, Len(workouts)) = workouts
       /\ \E type \in WorkoutTypes, f \in FormFills : Submits(type, f)
       /\ \A type \in WorkoutTypes, f \in FormFills :
            Submits(type, f) =>
              LET w == workouts'[Len(workouts')]
              IN  /\ w.type = type
                  /\ w.distance = ToNumber(f.d).v
                  /\ w.duration = ToNumber(f.u).v
                  /\ IF type = "running"
                     THEN "cadence" \in DOMAIN w /\ w.cadence = ToNumber(f.c).v
                     ELSE "elevation" \in DOMAIN w /\ w.elevation = ToNumber(f.e).v]_vars

\* C3 witness: a second record has just been appended by a submission.
C3_Witness == Succeeded(out) /\ Len(workouts) = 2

\* C4: between events, loading the blob yields the records of the store, in
\* order (an absent blob counting as no records).
C4_BlobLoadsToStore == Load(blob) = workouts

\* C5: saving a sequence of valid records and loading it again yields the
\* sequence it was, field for field.
C5_RoundTrip == Load(setLocalStorage(workouts)) = workouts

\* C6: a map click opens the form and stores the clicked place; a rejected
\* submission changes neither; a successful one hides the form and clears the
\* fields; and the form becomes shown only by a map click and hidden only by a
\* successful submission or a page load.
C6_FormStateMachine ==
  [][/\ out'.op = "mapClick" =>
          /\ ~formHidden'
          /\ \E loc \in Locations : showForm(loc) /\ mapEvent' = <<loc>>
     /\ (out'.op = "submit" /\ out'.alert) =>
          (formHidden' = formHidden /\ mapEvent' = mapEvent)
     /\ Succeeded(out') => (formHidden' /\ out'.fields = "cleared")
     /\ out'.op = "start" => formHidden'
     /\ (formHidden /\ ~formHidden') => out'.op = "mapClick"
     /\ (~formHidden /\ formHidden') =>
          (Succeeded(out') \/ out'.op = "start")]_vars

\* C6 witness: a submission was rejected while the form was open, and the form
\* is still open on the clicked place.
C6_Witness == out.op = "submit" /\ out.alert /\ ~formHidden /\ mapEvent # <<>>

\* C7: a click in the list calls setView exactly when it lands on an entry,
\* and then with the coordinates of a stored record that has the entry's id.
C7_ListClickCentresOnEntry ==
  [][out'.op = "listClick" =>
       \A target \in 0..Len(list) :
         moveToPopup(target) =>
           /\ (out'.setView # <<>>) <=> (target # 0)
           /\ target # 0 =>
                \E i \in DOMAIN workouts :
                  /\ list[target].dataId = [s |-> "digits", n |-> workouts[i].id]
                  /\ out'.setView = <<[center |-> workouts[i].coords,
                                       zoom |-> mapZoomLevel]>>]_vars

\* C7 witness: of two records at different places, the click on the entry of
\* the second one moved the map to the second one's place.
C7_Witness ==
  /\ out.op = "listClick"
  /\ Len(workouts) = 2
  /\ workouts[1].id # workouts[2].id
  /\ workouts[1].coords # workouts[2].coords
  /\ out.setView = <<[center |-> workouts[2].coords, zoom |-> mapZoomLevel]>>

\* The entry clicked shows an id that no record of the store has.
LookupMiss(target) ==
  \A i \in DOMAIN workouts :
    \/ "id" \notin DOMAIN workouts[i]
    \/ list[target].dataId # [s |-> "digits", n |-> workouts[i].id]

\* C8: a list click on an id the store does not hold raises no error, makes no
\* map call and changes neither the store, nor the blob, nor the form state.
C8_LookupMissIsNoOp ==
  [][out'.op = "listClick" =>
       \A target \in 1..Len(list) :
         (moveToPopup(target) /\ LookupMiss(target)) =>
           /\ ~out'.error
           /\ out'.setView = <<>>
           /\ UNCHANGED <<workouts, blob, form, mapEvent>>]_vars

\* C9: when reset returns the key is gone and loading gives no records, and
\* the page load that reset asked for finds the key still gone and leaves
\* the store, the markers and the list empty.
C9_ResetEmpties ==
  [][/\ out'.op = "reset" => (blob' = Absent /\ Load(blob') = <<>>)
     /\ (reloading /\ out'.op = "start") =>
          /\ blob' = Absent
          /\ Len(workouts') = 0
          /\ markers' = <<>>
          /\ list' = <<>>]_vars

\* C10: a page load on a blob of n records makes the store those n records in
\* their order, adds one marker per record in that order and puts one entry
\* per record right after the form in that order (so the newest is first), and
\* leaves the blob as it was.
C10_StartupHydrates ==
  [][out'.op = "start" =>
       LET ws == Load(blob)
           n == Len(ws)
       IN  /\ blob' = blob
           /\ workouts' = ws
           /\ Len(markers') = n
           /\ Len(list') = n
           /\ \A i \in 1..n :
                /\ markers'[i] = Marker(ws[i])
                /\ list'[n + 1 - i] = Entry(ws[i])]_vars

\* C10 witness: a page load has hydrated two records made at different places.
C10_Witness ==
  /\ out.op = "start"
  /\ blob # Absent
  /\ Len(workouts) = 2
  /\ workouts[1].coords # workouts[2].coords
  /\ Len(list) = 2

\* The page has just been loaded on a key that is absent or holds no array.
LoadedOnNoArray == out.op = "start" /\ blob.t # "array"

\* C11: a page load that finds the key absent or the blob malformed raises no
\* error and leaves the store empty, and the application goes on handling
\* events (its listeners are in place).
C11_MalformedLoadsEmpty ==
  LoadedOnNoArray => (~out.error /\ workouts = <<>> /\ app)

\* The record was constructed in this session: its date is still the Date
\* object, while a record read from the blob has the string.
CreatedHere(w) == w.date.cls = "Date"

\* C12: of two records of the store created in the same session, the one
\* inserted later has the strictly greater id.
C12_IdsIncrease ==
  \A i, j \in DOMAIN workouts :
    (i < j /\ CreatedHere(workouts[i]) /\ CreatedHere(workouts[j])) =>
      workouts[i].id < workouts[j].id

\* C13: every event other than a page load (reset itself included, which
\* leaves the store to the page load it asks for) leaves the store as it
\* was or as it was followed by new records: what was stored stays, in place
\* and unmodified.
C13_AppendOnly ==
  [][out'.op # "start" =>
       /\ Len(workouts) <= Len(workouts')
       /\ SubSeq(workouts', 1, Len(workouts)) = workouts]_vars

\* C13 witness: with two records stored, a click on the list or a change of
\* the type selector was handled, and both records are still there.
C13_Witness ==
  /\ out.op \in {"listClick", "typeChange"}
  /\ Len(workouts) = 2
  /\ ~formHidden

\* A record of exactly one kind with the extra field of its kind only.
OneKind(w) ==
  /\ w.type \in WorkoutTypes
  /\ ("cadence" \in DOMAIN w) <=> (w.type = "running")
  /\ ("elevation" \in DOMAIN w) <=> (w.type = "cycling")

\* C14: every record of the store and every record of the blob has one kind,
\* a cadence exactly when it is running and an elevation exactly when it is
\* cycling.
C14_ExtraFieldOfKind ==
  /\ \A i \in DOMAIN workouts : OneKind(workouts[i])
  /\ blob.t = "array" => \A i \in DOMAIN blob.a : OneKind(blob.a[i])

\* C14 witness: a running and a cycling record are stored and persisted.
C14_Witness ==
  /\ Len(workouts) = 2
  /\ workouts[1].type = "running"
  /\ workouts[2].type = "cycling"
  /\ blob.t = "array"
  /\ Len(blob.a) = 2

\* The decimal string m, in tenths.
Tenths(m) == 10 * m.int + m.frac

\* m shows one decimal and is a tenth nearest to num / den: they differ by at
\* most half a tenth.
NearestTenth(m, num, den) ==
  /\ m.frac \in 0..9
  /\ 20 * num - 2 * Tenths(m) * den <= den
  /\ 2 * Tenths(m) * den - 20 * num <= den

\* C15: the pace of every running record is duration / distance rounded to
\* one decimal, and the speed of every cycling record is
\* distance / (duration / 60) rounded to one decimal.
C15_MetricRounded ==
  \A i \in DOMAIN workouts :
    LET w == workouts[i]
    IN  IF w.type = "running"
        THEN NearestTenth(w.pace, w.duration, w.distance)
        ELSE NearestTenth(w.speed, 60 * w.distance, w.duration)

\* C15 witness: a running record whose pace was rounded up and a cycling
\* record whose speed was rounded down are stored.
C15_Witness ==
  /\ Len(workouts) = 2
  /\ workouts[1].type = "running"
  /\ Tenths(workouts[1].pace) * workouts[1].distance > 10 * workouts[1].duration
  /\ workouts[2].type = "cycling"
  /\ Tenths(workouts[2].speed) * workouts[2].duration < 600 * workouts[2].distance

\* The derived metric of a record: the speed of a cycling workout, the pace
\* of a running one.
Metric(w) == IF w.type = "cycling" THEN w.speed ELSE w.pace

\* C16: the description of every stored record is the one made from its kind
\* and its own creation date, every event other than the page load a reset
\* asked for keeps every stored record, and every event (submissions, list
\* clicks, page loads on a later date) leaves the description and the metric
\* of each record it keeps as they were.
C16_DerivedFixed ==
  [][/\ \A i \in DOMAIN workouts' :
          workouts'[i].description =
            setDescription(workouts'[i].type, workouts'[i].date.t)
     /\ ~(reloading /\ out'.op = "start") =>
          \A i \in DOMAIN workouts : i \in DOMAIN workouts'
     /\ \A i \in DOMAIN workouts \cap DOMAIN workouts' :
          /\ workouts'[i].description = workouts[i].description
          /\ Metric(workouts'[i]) = Metric(workouts[i])]_vars

\* C16 witness: the page was loaded after the clock had moved on to another
\* day, and the first record still shows the day it was created on.
C16_Witness ==
  /\ out.op = "start"
  /\ Len(workouts) = 2
  /\ workouts[1].date.t < now
  /\ workouts[1].description # setDescription(workouts[1].type, now)
  /\ workouts[1].description = setDescription(workouts[1].type, workouts[1].date.t)

\* C17: every start of the application has created the map view, with one
\* call, centred on the fixed default centre at the fixed zoom (no location
\* request is made, so no outcome of one can change that), and in every state
\* a click anywhere on the map is handled.
C17_MapInitialised ==
  /\ out.op = "start" =>
       out.setView = <<[center |-> DefaultCoords, zoom |-> mapZoomLevel]>>
  /\ \A loc \in Locations : ENABLED showForm(loc)

\* C17 witness: after a page load that hydrated a record, a click on the map
\* has been handled and the form is open on it.
C17_Witness ==
  /\ out.op = "mapClick"
  /\ Len(workouts) = 1
  /\ ~CreatedHere(workouts[1])
  /\ ~formHidden
  /\ mapEvent # <<>>

\* C18: there are as many list entries as markers as records in the store,
\* the ids the entries show are the ids of the store, and the lookup of every
\* entry's id finds a record.
C18_ListMarkersStoreAgree ==
  /\ Len(list) = Len(workouts)
  /\ Len(markers) = Len(workouts)
  /\ {list[k].dataId : k \in DOMAIN list} =
       {[s |-> "digits", n |-> workouts[i].id] : i \in DOMAIN workouts}
  /\ \A k \in DOMAIN list : find(workouts, NumberOfDataId(list[k].dataId)) # 0

\* C18 witness: two records with different ids are stored, shown by two
\* entries and two markers.
C18_Witness ==
  /\ Len(workouts) = 2
  /\ workouts[1].id # workouts[2].id
  /\ Len(list) = 2
  /\ list[1].dataId # list[2].dataId
  /\ Len(markers) = 2

\* C19: a click on the map at any place makes that place the pending one,
\* whatever was pending before; no event other than a map click or a page
\* load changes the pending place; and a successful submission appends a
\* record at the pending place and leaves the earlier records as they were.
C19_LastClickWins ==
  [][/\ \A loc \in Locations : ENABLED (showForm(loc) /\ mapEvent' = <<loc>>)
     /\ out'.op \notin {"mapClick", "start"} => mapEvent' = mapEvent
     /\ Succeeded(out') =>
          /\ mapEvent # <<>>
          /\ workouts'[Len(workouts')].coords = mapEvent[1]
          /\ SubSeq(workouts', 1, Len(workouts)) = workouts]_vars

\* C19 witness: a second record was just created at the place clicked last,
\* another place than the first record's, which kept its own.
C19_Witness ==
  /\ Succeeded(out)
  /\ Len(workouts) = 2
  /\ mapEvent # <<>>
  /\ workouts[2].coords = mapEvent[1]
  /\ workouts[1].coords # workouts[2].coords

\* C20: the store grows only by a submission handled while the form is
\* shown, and a submission handled while the form is hidden changes neither
\* the store, nor the blob, nor the list, nor the markers.
C20_RecordOnlyWhenFormOpen ==
  [][/\ Len(workouts') > Len(workouts) => (out'.op = "submit" /\ ~formHidden)
     /\ (out'.op = "submit" /\ formHidden) =>
          UNCHANGED <<workouts, blob, list, markers>>]_vars

====
